---- MODULE Spec2Model ----
(***************************************************************************)
(* Model of mlnx_switchdev_mode/sriovify.py: the sysfs view of PCI devices *)
(* (PCIDevice), the devlink eswitch interface and the switch() procedure   *)
(* that unbinds the VFs of a legacy-mode mlx5_core PF, sets the eswitch    *)
(* mode to switchdev and binds the VFs again in a finally block.           *)
(*                                                                         *)
(* PCI addresses are integers: a top-level function has address t in Tops  *)
(* and the VF behind its link virtfn<i> has address t + 1 + i.             *)
(***************************************************************************)
EXTENDS Integers, Sequences, FiniteSets, TLC

\* Number of virtfn<i> link indices a device may carry (0 .. MaxVf-1).
MaxVf == 2
\* Number of times the operator runs "switch" in a row.
MaxRuns == 2
\* Number of virtfn<i> link indices when vf_addrs is read on its own.
MaxProbe == 4

Tops == {10, 20}
Idx == 0 .. (MaxVf - 1)
VfAddr(t, i) == t + 1 + i
AllVfs == {VfAddr(t, i) : t \in Tops, i \in Idx}
Addrs == Tops \cup AllVfs

\* What a top-level function can be: sriov_numvfs present or not, the
\* driver link target ("none": no driver link), and what devlink reports
\* for its eswitch ("nosriov": the query is rejected, "na": no devlink dev).
Profiles ==
    { [pf |-> FALSE, drv |-> "igb",       mode |-> "na"],
      [pf |-> FALSE, drv |-> "none",      mode |-> "na"],
      [pf |-> FALSE, drv |-> "mlx5_core", mode |-> "na"],
      [pf |-> TRUE,  drv |-> "igb",       mode |-> "na"],
      [pf |-> TRUE,  drv |-> "none",      mode |-> "na"],
      [pf |-> TRUE,  drv |-> "mlx5_core", mode |-> "legacy"],
      [pf |-> TRUE,  drv |-> "mlx5_core", mode |-> "switchdev"],
      [pf |-> TRUE,  drv |-> "mlx5_core", mode |-> "nosriov"] }

VARIABLES
    sriov,      \* sysfs: set of devices that have a sriov_numvfs file
    driver,     \* sysfs: device -> target of its driver link, "none" if absent
    virtfn,     \* sysfs: device -> set of indices i whose virtfn<i> link exists
    mode,       \* devlink: device -> eswitch mode
    listing,    \* result of os.listdir("/sys/bus/pci/devices")
    pc,         \* position of the process in main()/switch()
    run,        \* number of switch() calls started so far
    idx,        \* position of the for loop over listing
    vfi,        \* position of the unbind loop over pcidev.vfs
    rebond,     \* the list rebond of switch()
    bi,         \* position of the finally loop over rebond
    handle,     \* the control file currently open: "none", "unbind", "bind"
    pending,    \* exception in flight while the finally block runs
    error,      \* exception that left switch(), "none" if it returned
    log,        \* every operation the current switch() call issued, in order
    iterAt,     \* position in log where the last try block began, 0 if none
    prev,       \* outcome of the previous switch() call
    target,     \* the PCIDevice whose vf_addrs property is being read
    vf_acc,     \* the local list vf_addrs of PCIDevice.vf_addrs
    vf_i,       \* the local counter i of PCIDevice.vf_addrs
    netlist,    \* result of os.listdir("/sys/class/net")
    netdevice,  \* sysfs: netdev -> PCI device behind its device link
    pci_to_netdev, \* the dict built by build_pci_to_netdev()
    out         \* the lines show() has printed

vars == << sriov, driver, virtfn, mode, listing, pc, run, idx, vfi, rebond,
           bi, handle, pending, error, log, iterAt, prev, target, vf_acc,
           vf_i, netlist, netdevice, pci_to_netdev, out >>

\* the state of the inventory queries and of show()
inventory == << target, vf_acc, vf_i, netlist, netdevice, pci_to_netdev, out >>

\* what switch() never changes, and the bookkeeping of the log
sysfs == << sriov, virtfn, listing, prev, inventory >>

----
\* PCIDevice properties

\* PCIDevice.is_pf
is_pf(d) == d \in sriov

\* a bound test that always answers yes
bound_always(d) == TRUE

\* PCIDevice.bound
bound(d) == driver[d] # "none"

\* PCIDevice.driver raises FileNotFoundError when the link is missing
driver_raises(d) == driver[d] = "none"

\* a probe that steps over a missing virtfn<i> and collects every link
vf_addrs_skip(d, i) ==
    LET S == {k \in virtfn[d] : k >= i}
    IN  [j \in 1 .. Cardinality(S) |->
            VfAddr(d, CHOOSE k \in S : Cardinality({x \in S : x < k}) = j - 1)]

\* PCIDevice.vf_addrs: probe virtfn0, virtfn1, ... until one is missing
RECURSIVE vf_addrs_from(_, _)
vf_addrs_from(d, i) ==
    IF i \in virtfn[d]
    THEN << VfAddr(d, i) >> \o vf_addrs_from(d, i + 1)
    ELSE << >>

vf_addrs(d) == vf_addrs_from(d, 0)

\* the VFs in descending index order
vfs_reversed(d) ==
    LET a == vf_addrs(d)
    IN  [k \in 1 .. Len(a) |-> a[Len(a) + 1 - k]]

\* PCIDevice.vfs
vfs(d) == vf_addrs(d)

\* the device filter of switch()
is_mlx5_pf(d) == is_pf(d) /\ driver[d] = "mlx5_core"

\* a mode test that accepts every mode
needs_switch_any(m) == TRUE

\* the eswitch mode test of switch()
needs_switch(m) == m = "legacy"

\* devlink_get("eswitch") fails when the kernel rejects the query
devlink_get_fails(d) == mode[d] \notin {"legacy", "switchdev"}

\* rebond.append(vf) after a completed unbind write
after_unbind(rb, vf) == Append(rb, vf)

\* a finally loop that stops one short of the end of the list
rebind_list_short(rb) == SubSeq(rb, 1, Len(rb) - 1)

\* a finally loop that walks nothing
rebind_list_none(rb) == << >>

\* the list the finally block walks
rebind_list(rb) == rb

----
\* Helpers for sequences

Range(s) == {s[i] : i \in DOMAIN s}

RECURSIVE SetToSeq(_)
SetToSeq(S) ==
    IF S = {} THEN << >>
    ELSE LET m == CHOOSE x \in S : \A y \in S : x <= y
         IN  << m >> \o SetToSeq(S \ {m})

Perms(S) == {p \in [1 .. Cardinality(S) -> S] : \A x \in S : \E i \in DOMAIN p : p[i] = x}

\* A log entry: the operation, the device of the for loop it belongs to, the
\* device it acts on, its outcome, and the driver links and eswitch modes
\* as they were when it was issued.
Event(op, pf, dev, res) ==
    [op |-> op, pf |-> pf, dev |-> dev, res |-> res,
     driver |-> driver, mode |-> mode]

cur == listing[idx]

----
Init ==
    \E prof \in [Tops -> Profiles] :
    \E links \in [Tops -> SUBSET Idx] :
    \E order \in Perms(Tops) :
        /\ \A t \in Tops : ~prof[t].pf => links[t] = {}
        /\ LET existing == UNION {{VfAddr(t, i) : i \in links[t]} : t \in Tops}
               owner(v) == CHOOSE t \in Tops : \E i \in Idx : v = VfAddr(t, i)
               legacyVfs == {v \in existing : prof[owner(v)].mode = "legacy"}
           IN  \E unboundVfs \in SUBSET legacyVfs :
                /\ sriov = {t \in Tops : prof[t].pf}
                /\ virtfn = [d \in Addrs |-> IF d \in Tops THEN links[d] ELSE {}]
                /\ driver = [d \in Addrs |->
                               IF d \in Tops THEN prof[d].drv
                               ELSE IF d \in existing /\ d \notin unboundVfs
                                    THEN IF prof[owner(d)].drv = "none"
                                         THEN "none" ELSE prof[owner(d)].drv
                                    ELSE "none"]
                /\ mode = [d \in Addrs |-> IF d \in Tops THEN prof[d].mode ELSE "na"]
                /\ listing = order \o SetToSeq(existing)
        /\ pc = "idle"
        /\ run = 0
        /\ idx = 1
        /\ vfi = 1
        /\ rebond = << >>
        /\ bi = 1
        /\ handle = "none"
        /\ pending = "none"
        /\ error = "none"
        /\ log = << >>
        /\ iterAt = 0
        /\ prev = [returned |-> FALSE, switched |-> {}]
        /\ target = 0
        /\ vf_acc = << >>
        /\ vf_i = 0
        /\ netlist = << >>
        /\ netdevice = << >>
        /\ pci_to_netdev = << >>
        /\ out = << >>

----
\* main() dispatches to switch(); the operator may run the tool again.
Call ==
    /\ pc \in {"idle", "done"}
    /\ run < MaxRuns
    /\ pc' = "loop"
    /\ run' = run + 1
    /\ idx' = 1
    /\ vfi' = 1
    /\ bi' = 1
    /\ rebond' = << >>
    /\ pending' = "none"
    /\ error' = "none"
    /\ log' = << Event("call", 0, 0, "ok") >>
    /\ iterAt' = 0
    /\ prev' = [returned |-> pc = "done" /\ error = "none",
                switched |-> {log[e].pf : e \in {k \in DOMAIN log :
                                 log[k].op = "set" /\ log[k].res = "ok"}}]
    /\ UNCHANGED << sriov, virtfn, listing, driver, mode, handle, inventory >>

\* the for loop is exhausted: switch() returns
Return ==
    /\ pc = "loop"
    /\ idx > Len(listing)
    /\ pc' = "done"
    /\ log' = Append(log, Event("return", 0, 0, "ok"))
    /\ UNCHANGED << sysfs, iterAt, driver, mode, run, idx, vfi, rebond, bi, handle,
                    pending, error >>

\* "pcidev.is_pf and pcidev.driver == 'mlx5_core'" is false
SkipDevice ==
    /\ pc = "loop"
    /\ idx <= Len(listing)
    /\ ~is_pf(cur) \/ (~driver_raises(cur) /\ ~is_mlx5_pf(cur))
    /\ idx' = idx + 1
    /\ UNCHANGED << sysfs, iterAt, driver, mode, pc, run, vfi, rebond, bi, handle,
                    pending, error, log >>

\* pcidev.driver of a PF without a driver link: os.readlink raises
DriverLookupFails ==
    /\ pc = "loop"
    /\ idx <= Len(listing)
    /\ is_pf(cur)
    /\ driver_raises(cur)
    /\ pc' = "done"
    /\ error' = "FileNotFoundError"
    /\ log' = Append(log, Event("raise", cur, cur, "FileNotFoundError"))
    /\ UNCHANGED << sysfs, iterAt, driver, mode, run, idx, vfi, rebond, bi, handle,
                    pending >>

\* "if pcidev.vfs" is false
NoVfs ==
    /\ pc = "loop"
    /\ idx <= Len(listing)
    /\ is_pf(cur)
    /\ ~driver_raises(cur)
    /\ is_mlx5_pf(cur)
    /\ vfs(cur) = << >>
    /\ idx' = idx + 1
    /\ UNCHANGED << sysfs, iterAt, driver, mode, pc, run, vfi, rebond, bi, handle,
                    pending, error, log >>

\* an mlx5_core PF with VFs: go on to the eswitch query
HasVfs ==
    /\ pc = "loop"
    /\ idx <= Len(listing)
    /\ is_pf(cur)
    /\ ~driver_raises(cur)
    /\ is_mlx5_pf(cur)
    /\ vfs(cur) # << >>
    /\ pc' = "get"
    /\ UNCHANGED << sysfs, iterAt, driver, mode, run, idx, vfi, rebond, bi, handle,
                    pending, error, log >>

\* pcidev.devlink_get("eswitch") raises CalledProcessError
DevlinkGetFails ==
    /\ pc = "get"
    /\ devlink_get_fails(cur)
    /\ pc' = "done"
    /\ error' = "CalledProcessError"
    /\ log' = log \o << Event("get", cur, cur, "fail"),
                      Event("raise", cur, cur, "CalledProcessError") >>
    /\ UNCHANGED << sysfs, iterAt, driver, mode, run, idx, vfi, rebond, bi, handle,
                    pending >>

\* the mode is not "legacy": nothing to do for this PF
DevlinkGetOther ==
    /\ pc = "get"
    /\ ~devlink_get_fails(cur)
    /\ ~needs_switch(mode[cur])
    /\ pc' = "loop"
    /\ idx' = idx + 1
    /\ log' = Append(log, Event("get", cur, cur, mode[cur]))
    /\ UNCHANGED << sysfs, iterAt, driver, mode, run, vfi, rebond, bi, handle,
                    pending, error >>

\* the mode is "legacy": rebond = [] and the try block is entered
DevlinkGetLegacy ==
    /\ pc = "get"
    /\ ~devlink_get_fails(cur)
    /\ needs_switch(mode[cur])
    /\ pc' = "unbind"
    /\ rebond' = << >>
    /\ vfi' = 1
    /\ bi' = 1
    /\ log' = Append(log, Event("get", cur, cur, mode[cur]))
    /\ iterAt' = Len(log) + 1
    /\ UNCHANGED << sysfs, driver, mode, run, idx, handle, pending, error >>

\* the unbind loop reaches a VF that is not bound: "if vf.bound" is false
UnbindSkip ==
    /\ pc = "unbind"
    /\ vfi <= Len(vfs(cur))
    /\ ~bound(vfs(cur)[vfi])
    /\ vfi' = vfi + 1
    /\ UNCHANGED << sysfs, iterAt, driver, mode, pc, run, idx, rebond, bi, handle,
                    pending, error, log >>

\* open("/sys/bus/pci/drivers/mlx5_core/unbind", "wt") for a bound VF
UnbindOpen ==
    /\ pc = "unbind"
    /\ vfi <= Len(vfs(cur))
    /\ bound(vfs(cur)[vfi])
    /\ handle = "none"
    /\ handle' = "unbind"
    /\ pc' = "unbind_write"
    /\ UNCHANGED << sysfs, iterAt, driver, mode, run, idx, vfi, rebond, bi, pending,
                    error, log >>

\* f.write(vf.pci_addr) and the close of the with block; the kernel takes
\* the write, the VF loses its driver link, rebond.append(vf)
UnbindWriteOk ==
    /\ pc = "unbind_write"
    /\ handle = "unbind"
    /\ LET vf == vfs(cur)[vfi]
       IN  /\ driver' = [driver EXCEPT ![vf] = "none"]
           /\ rebond' = after_unbind(rebond, vf)
           /\ log' = Append(log, Event("unbind", cur, vf, "ok"))
    /\ handle' = "none"
    /\ vfi' = vfi + 1
    /\ pc' = "unbind"
    /\ UNCHANGED << sysfs, iterAt, mode, run, idx, bi, pending, error >>

\* an unbind loop that notes a rejected write and goes on to the next VF
UnbindWriteFails_ignored ==
    /\ pc = "unbind_write"
    /\ handle = "unbind"
    /\ log' = Append(log, Event("unbind", cur, vfs(cur)[vfi], "fail"))
    /\ handle' = "none"
    /\ vfi' = vfi + 1
    /\ pc' = "unbind"
    /\ UNCHANGED << sysfs, iterAt, driver, mode, run, idx, bi, rebond,
                    pending, error >>

\* the write is rejected: OSError leaves the with block (the file is closed)
\* before rebond.append(vf), and the finally block runs
UnbindWriteFails ==
    /\ pc = "unbind_write"
    /\ handle = "unbind"
    /\ log' = Append(log, Event("unbind", cur, vfs(cur)[vfi], "fail"))
    /\ handle' = "none"
    /\ pending' = "OSError"
    /\ bi' = 1
    /\ pc' = "finally"
    /\ UNCHANGED << sysfs, iterAt, driver, mode, run, idx, vfi, rebond, error >>

\* the unbind loop is over: pcidev.devlink_set("eswitch", "mode", "switchdev")
DevlinkSetOk ==
    /\ pc = "unbind"
    /\ vfi > Len(vfs(cur))
    /\ mode' = [mode EXCEPT ![cur] = "switchdev"]
    /\ log' = Append(log, Event("set", cur, cur, "ok"))
    /\ bi' = 1
    /\ pc' = "finally"
    /\ UNCHANGED << sysfs, iterAt, driver, run, idx, vfi, rebond, handle, pending,
                    error >>

\* devlink exits nonzero: CalledProcessError, and the finally block runs
DevlinkSetFails ==
    /\ pc = "unbind"
    /\ vfi > Len(vfs(cur))
    /\ log' = Append(log, Event("set", cur, cur, "fail"))
    /\ pending' = "CalledProcessError"
    /\ bi' = 1
    /\ pc' = "finally"
    /\ UNCHANGED << sysfs, iterAt, driver, mode, run, idx, vfi, rebond, handle,
                    error >>

\* finally: open("/sys/bus/pci/drivers/mlx5_core/bind", "wt") for the next
\* VF of rebond
BindOpen ==
    /\ pc = "finally"
    /\ bi <= Len(rebind_list(rebond))
    /\ handle = "none"
    /\ handle' = "bind"
    /\ pc' = "bind_write"
    /\ UNCHANGED << sysfs, iterAt, driver, mode, run, idx, vfi, rebond, bi, pending,
                    error, log >>

\* f.write(vf.pci_addr) and the close: the VF is bound to mlx5_core again
BindWriteOk ==
    /\ pc = "bind_write"
    /\ handle = "bind"
    /\ LET vf == rebind_list(rebond)[bi]
       IN  /\ driver' = [driver EXCEPT ![vf] = "mlx5_core"]
           /\ log' = Append(log, Event("bind", cur, vf, "ok"))
    /\ handle' = "none"
    /\ bi' = bi + 1
    /\ pc' = "finally"
    /\ UNCHANGED << sysfs, iterAt, mode, run, idx, vfi, rebond, pending, error >>

\* a rebind pass that notes a rejected bind write and goes on to the next VF
BindWriteFails_continue ==
    /\ pc = "bind_write"
    /\ handle = "bind"
    /\ log' = Append(log, Event("bind", cur, rebind_list(rebond)[bi], "fail"))
    /\ handle' = "none"
    /\ bi' = bi + 1
    /\ pc' = "finally"
    /\ UNCHANGED << sysfs, iterAt, driver, mode, run, idx, vfi, rebond,
                    pending, error >>

\* the bind write is rejected: OSError leaves the finally block and
\* switch(), replacing any exception that was in flight
BindWriteFails ==
    /\ pc = "bind_write"
    /\ handle = "bind"
    /\ log' = log \o << Event("bind", cur, rebind_list(rebond)[bi], "fail"),
                      Event("raise", cur, cur, "OSError") >>
    /\ handle' = "none"
    /\ error' = "OSError"
    /\ pending' = "none"
    /\ pc' = "done"
    /\ UNCHANGED << sysfs, iterAt, driver, mode, run, idx, vfi, rebond, bi >>

\* the finally block is over and no exception is in flight: next device
FinallyContinue ==
    /\ pc = "finally"
    /\ bi > Len(rebind_list(rebond))
    /\ pending = "none"
    /\ idx' = idx + 1
    /\ pc' = "loop"
    /\ log' = Append(log, Event("next", cur, cur, "ok"))
    /\ UNCHANGED << sysfs, iterAt, driver, mode, run, vfi, rebond, bi, handle,
                    pending, error >>

\* a finally block that drops the exception in flight and goes on to the
\* next device
FinallyReraise_swallowed ==
    /\ pc = "finally"
    /\ bi > Len(rebind_list(rebond))
    /\ pending # "none"
    /\ pending' = "none"
    /\ idx' = idx + 1
    /\ pc' = "loop"
    /\ log' = Append(log, Event("next", cur, cur, "ok"))
    /\ UNCHANGED << sysfs, iterAt, driver, mode, run, vfi, rebond, bi, handle,
                    error >>

\* the finally block is over: the exception in flight leaves switch()
FinallyReraise ==
    /\ pc = "finally"
    /\ bi > Len(rebind_list(rebond))
    /\ pending # "none"
    /\ error' = pending
    /\ pending' = "none"
    /\ pc' = "done"
    /\ log' = Append(log, Event("raise", cur, cur, pending))
    /\ UNCHANGED << sysfs, iterAt, driver, mode, run, idx, vfi, rebond, bi, handle >>

Next ==
    \/ Call
    \/ Return
    \/ SkipDevice
    \/ DriverLookupFails
    \/ NoVfs
    \/ HasVfs
    \/ DevlinkGetFails
    \/ DevlinkGetOther
    \/ DevlinkGetLegacy
    \/ UnbindSkip
    \/ UnbindOpen
    \/ UnbindWriteOk
    \/ UnbindWriteFails
    \/ DevlinkSetOk
    \/ DevlinkSetFails
    \/ BindOpen
    \/ BindWriteOk
    \/ BindWriteFails
    \/ FinallyContinue
    \/ FinallyReraise

Spec == Init /\ [][Next]_vars

----
\* Reading PCIDevice.vf_addrs of one device, statement by statement.

InitProbe ==
    /\ sriov = Tops
    /\ \E links \in [Tops -> SUBSET (0 .. (MaxProbe - 1))] :
        virtfn = [d \in Addrs |-> IF d \in Tops THEN links[d] ELSE {}]
    /\ driver = [d \in Addrs |-> IF d \in Tops THEN "mlx5_core" ELSE "none"]
    /\ mode = [d \in Addrs |-> IF d \in Tops THEN "legacy" ELSE "na"]
    /\ listing = SetToSeq(Tops)
    /\ pc = "idle"
    /\ run = 0
    /\ idx = 1
    /\ vfi = 1
    /\ rebond = << >>
    /\ bi = 1
    /\ handle = "none"
    /\ pending = "none"
    /\ error = "none"
    /\ log = << >>
    /\ iterAt = 0
    /\ prev = [returned |-> FALSE, switched |-> {}]
    /\ target = 0
    /\ vf_acc = << >>
    /\ vf_i = 0
    /\ netlist = << >>
    /\ netdevice = << >>
    /\ pci_to_netdev = << >>
    /\ out = << >>

\* what reading vf_addrs leaves alone
probe_frame ==
    << sriov, driver, virtfn, mode, listing, run, idx, vfi, rebond, bi,
       handle, pending, error, log, iterAt, prev, netlist, netdevice,
       pci_to_netdev, out >>

\* vf_addrs = [] ; i = 0
ProbeStart ==
    /\ pc = "idle"
    /\ \E d \in Tops : target' = d
    /\ vf_acc' = << >>
    /\ vf_i' = 0
    /\ pc' = "probe"
    /\ UNCHANGED probe_frame

\* os.readlink of virtfn<i> answers: append its basename, i += 1
ProbeHit ==
    /\ pc = "probe"
    /\ vf_i \in virtfn[target]
    /\ vf_acc' = Append(vf_acc, VfAddr(target, vf_i))
    /\ vf_i' = vf_i + 1
    /\ UNCHANGED << probe_frame, pc, target >>

\* os.readlink raises FileNotFoundError: break, return vf_addrs
ProbeMiss ==
    /\ pc = "probe"
    /\ vf_i \notin virtfn[target]
    /\ pc' = "probed"
    /\ UNCHANGED << probe_frame, target, vf_acc, vf_i >>

NextProbe ==
    \/ ProbeStart
    \/ ProbeHit
    \/ ProbeMiss

SpecProbe == InitProbe /\ [][NextProbe]_vars

----
\* "show": the netdev tree /sys/class/net and the table printed from it.

\* os.listdir("/sys/class/net")
Netdevs == {1, 2, 3}

\* target of the physfn link of a device, 0 when it has none
physfn(d) ==
    IF \E t \in Tops : \E i \in virtfn[t] : d = VfAddr(t, i)
    THEN CHOOSE t \in Tops : \E i \in virtfn[t] : d = VfAddr(t, i)
    ELSE 0

\* netdev_is_pf: <netdev>/device/sriov_numvfs exists
netdev_is_pf(n) == is_pf(netdevice[n])

\* netdev_is_vf: <netdev>/device/physfn exists
netdev_is_vf(n) == physfn(netdevice[n]) # 0

\* netdev_get_pf_pci: basename of the target of <netdev>/device/physfn
netdev_get_pf_pci(n) == physfn(netdevice[n])

\* netdev_get_driver: basename of the target of <netdev>/device/driver
netdev_get_driver(n) == driver[netdevice[n]]

\* the lookup pci_to_netdev[netdev_get_pf_pci(netdev)] of show raises
\* KeyError: it is reached for a VF netdev that is no PF
pf_lookup_raises(n) ==
    /\ ~netdev_is_pf(n)
    /\ netdev_is_vf(n)
    /\ pci_to_netdev[netdev_get_pf_pci(n)] = 0

\* the keys of a mapping, 0 standing for "no entry"
Keys(m) == {d \in DOMAIN m : m[d] # 0}

\* the items of the mapping in descending order of PCI address
items_descending(m) ==
    LET K == Keys(m)
    IN  [j \in 1 .. Cardinality(K) |->
            LET d == CHOOSE k \in K : Cardinality({x \in K : x > k}) = j - 1
            IN  << d, m[d] >>]

\* sorted(pci_to_netdev.items())
sorted_items(m) ==
    LET K == SetToSeq(Keys(m))
    IN  [j \in 1 .. Len(K) |-> << K[j], m[K[j]] >>]

\* "{}\t{}\t{}\t{}".format(pci, netdev, driver, suffix); the suffix is
\* "PF", "VF of <of>" or empty
Record(pci, netdev, drv, role, of) ==
    [pci |-> pci, netdev |-> netdev, driver |-> drv, role |-> role, of |-> of]

InitShow ==
    \E shape \in [Tops -> {"plain", "pf", "pf_with_vfs"}] :
    \E devs \in [Netdevs -> {0} \cup Addrs] :
    \E order \in Perms(Netdevs) :
        /\ sriov = {t \in Tops : shape[t] # "plain"}
        /\ virtfn = [d \in Addrs |->
                        IF d \in Tops /\ shape[d] = "pf_with_vfs" THEN Idx ELSE {}]
        /\ listing = SetToSeq(Tops \cup
                {VfAddr(t, i) : t \in {x \in Tops : shape[x] = "pf_with_vfs"},
                                i \in Idx})
        /\ \A n \in Netdevs : devs[n] # 0 => devs[n] \in Range(listing)
        /\ \E nodrv \in {devs[n] : n \in Netdevs} \cup {0} :
            driver = [d \in Addrs |->
                        IF d = nodrv \/ d \notin Range(listing) THEN "none"
                        ELSE IF d \in Tops /\ shape[d] = "plain" THEN "igb"
                        ELSE "mlx5_core"]
        /\ mode = [d \in Addrs |-> IF d \in sriov THEN "legacy" ELSE "na"]
        /\ netlist = order
        /\ netdevice = devs
        /\ pc = "idle"
        /\ run = 0
        /\ idx = 1
        /\ vfi = 1
        /\ rebond = << >>
        /\ bi = 1
        /\ handle = "none"
        /\ pending = "none"
        /\ error = "none"
        /\ log = << >>
        /\ iterAt = 0
        /\ prev = [returned |-> FALSE, switched |-> {}]
        /\ target = 0
        /\ vf_acc = << >>
        /\ vf_i = 0
        /\ pci_to_netdev = [d \in Addrs |-> 0]
        /\ out = << >>

\* what "show" leaves alone
show_frame ==
    << sriov, driver, virtfn, mode, listing, run, vfi, rebond, bi, handle,
       pending, log, iterAt, prev, target, vf_acc, vf_i, netlist, netdevice >>

\* main() dispatches to show(); build_pci_to_netdev starts with {}
ShowCall ==
    /\ pc = "idle"
    /\ pc' = "build"
    /\ idx' = 1
    /\ pci_to_netdev' = [d \in Addrs |-> 0]
    /\ out' = << >>
    /\ UNCHANGED << show_frame, error >>

\* readlink of <netdev>/device raises: continue
BuildSkip ==
    /\ pc = "build"
    /\ idx <= Len(netlist)
    /\ netdevice[netlist[idx]] = 0
    /\ idx' = idx + 1
    /\ UNCHANGED << show_frame, pc, error, pci_to_netdev, out >>

\* pci_to_netdev[pcidev] = netdev
BuildAdd ==
    /\ pc = "build"
    /\ idx <= Len(netlist)
    /\ netdevice[netlist[idx]] # 0
    /\ pci_to_netdev' =
            [pci_to_netdev EXCEPT ![netdevice[netlist[idx]]] = netlist[idx]]
    /\ idx' = idx + 1
    /\ UNCHANGED << show_frame, pc, error, out >>

\* return pci_to_netdev; the for loop of show starts on the sorted items
BuildDone ==
    /\ pc = "build"
    /\ idx > Len(netlist)
    /\ pc' = "print"
    /\ idx' = 1
    /\ UNCHANGED << show_frame, error, pci_to_netdev, out >>

\* one pass of the loop body that reaches print
PrintRecord ==
    /\ pc = "print"
    /\ idx <= Len(sorted_items(pci_to_netdev))
    /\ LET pci == sorted_items(pci_to_netdev)[idx][1]
           netdev == sorted_items(pci_to_netdev)[idx][2]
       IN  /\ ~pf_lookup_raises(netdev)
           /\ netdev_get_driver(netdev) # "none"
           /\ out' = Append(out,
                IF netdev_is_pf(netdev)
                THEN Record(pci, netdev, netdev_get_driver(netdev), "PF", 0)
                ELSE IF netdev_is_vf(netdev)
                THEN Record(pci, netdev, netdev_get_driver(netdev), "VF of",
                            pci_to_netdev[netdev_get_pf_pci(netdev)])
                ELSE Record(pci, netdev, netdev_get_driver(netdev), "", 0))
    /\ idx' = idx + 1
    /\ UNCHANGED << show_frame, pc, error, pci_to_netdev >>

\* pci_to_netdev[netdev_get_pf_pci(netdev)] has no such key: KeyError
PfLookupFails ==
    /\ pc = "print"
    /\ idx <= Len(sorted_items(pci_to_netdev))
    /\ LET netdev == sorted_items(pci_to_netdev)[idx][2]
       IN  pf_lookup_raises(netdev)
    /\ error' = "KeyError"
    /\ pc' = "done"
    /\ UNCHANGED << show_frame, idx, pci_to_netdev, out >>

\* netdev_get_driver: readlink of <netdev>/device/driver raises
ShowDriverFails ==
    /\ pc = "print"
    /\ idx <= Len(sorted_items(pci_to_netdev))
    /\ LET netdev == sorted_items(pci_to_netdev)[idx][2]
       IN  /\ ~pf_lookup_raises(netdev)
           /\ netdev_get_driver(netdev) = "none"
    /\ error' = "FileNotFoundError"
    /\ pc' = "done"
    /\ UNCHANGED << show_frame, idx, pci_to_netdev, out >>

\* the loop is exhausted: show returns
ShowReturn ==
    /\ pc = "print"
    /\ idx > Len(sorted_items(pci_to_netdev))
    /\ pc' = "shown"
    /\ UNCHANGED << show_frame, idx, error, pci_to_netdev, out >>

NextShow ==
    \/ ShowCall
    \/ BuildSkip
    \/ BuildAdd
    \/ BuildDone
    \/ PrintRecord
    \/ PfLookupFails
    \/ ShowDriverFails
    \/ ShowReturn

SpecShow == InitShow /\ [][NextShow]_vars

----
\* Reading the log.  The formulas below look at the current switch() call
\* and at the last iteration of it that entered the try block; as they are
\* checked in every reachable state, every call and every iteration is
\* looked at, while it runs and right after it ends.

Last(s) == s[Len(s)]

IsPrefix(s, t) == Len(s) <= Len(t) /\ s = SubSeq(t, 1, Len(s))

\* entry g opens the try block of a legacy-mode PF
IsIter(g) == log[g].op = "get" /\ log[g].res = "legacy"

\* the current call has entered a try block
HasIter == iterAt > 0

\* the PF of the last try block of the current call
Pf == log[iterAt].pf

\* the entries of that iteration
IterLog ==
    LET T(e) == e.pf = Pf
    IN  SelectSeq(SubSeq(log, iterAt, Len(log)), T)

\* the iteration has left the finally block
IterDone == Last(IterLog).op \in {"next", "raise"}

\* the devices of the entries of s with operation op and an outcome in ress
Devs(s, op, ress) ==
    LET T(e) == e.op = op /\ e.res \in ress
        f == SelectSeq(s, T)
    IN  [k \in 1 .. Len(f) |-> f[k].dev]

Unbound == Devs(IterLog, "unbind", {"ok"})
UnbindsIssued == Devs(IterLog, "unbind", {"ok", "fail"})
BindsIssued == Devs(IterLog, "bind", {"ok", "fail"})
SetsIssued == Devs(IterLog, "set", {"ok", "fail"})
SetOk == Devs(IterLog, "set", {"ok"}) # << >>
SetFailed == Devs(IterLog, "set", {"fail"}) # << >>
BindFailed == Devs(IterLog, "bind", {"fail"}) # << >>
UnbindFailed == Devs(IterLog, "unbind", {"fail"}) # << >>

\* positions, within the iteration, of the entries with operation op
At(op) == {k \in 1 .. Len(IterLog) : IterLog[k].op = op}

\* the VFs of the iteration's PF that had a driver when the try block began
BoundAtStart ==
    LET T(v) == log[iterAt].driver[v] # "none"
    IN  SelectSeq(vf_addrs(Pf), T)

\* the VFs of the iteration's PF that had no driver when the try block began
UnboundAtStart == {v \in Range(vf_addrs(Pf)) : log[iterAt].driver[v] = "none"}

\* the process is inside the try/finally of the current device
InTry == pc \in {"unbind", "unbind_write", "finally", "bind_write"}

----
\* C1 (as stated): when the mode-set call of a legacy PF fails after N VFs
\* were unbound, the bind writes issued before the failure reaches the
\* caller are exactly those N VFs.
C1_AsStated ==
    (HasIter /\ SetFailed /\ IterDone) => BindsIssued = Unbound

\* C1 (amended): when the mode-set call of a legacy PF fails after N VFs
\* were unbound, bind writes are issued for those VFs in list order, one
\* per VF and for no other device, all after the mode-set call and before
\* an exception reaches the caller; all N are issued unless a bind write
\* itself fails, which ends the pass at that VF.
C1_RebindOnSetFailure ==
    (HasIter /\ SetFailed) =>
        /\ IsPrefix(BindsIssued, Unbound)
        /\ \A b \in At("bind") : \A m \in At("set") : m < b
        /\ \A b \in At("bind") : \A r \in At("raise") : b < r
        /\ ~IterDone => (InTry /\ error = "none")
        /\ IterDone =>
            /\ Last(IterLog).op = "raise"
            /\ BindsIssued = Unbound \/ BindFailed
            /\ ~BindFailed => Last(IterLog).res = "CalledProcessError"

C1_Witness ==
    /\ HasIter /\ SetFailed /\ IterDone
    /\ Len(Unbound) = 2
    /\ BindsIssued = Unbound
    /\ ~BindFailed
    /\ pc = "done" /\ error = "CalledProcessError"

\* C2: when the mode-set call succeeds, no bind write follows it: the VFs
\* that were unbound stay unbound.
C2_NoRebindByDefault ==
    (HasIter /\ SetOk) =>
        /\ BindsIssued = << >>
        /\ \A k \in 1 .. Len(Unbound) : driver[Unbound[k]] = "none"

C4_SwitchdevUntouched ==
    log # << >> =>
        \A p \in Tops :
            log[1].mode[p] = "switchdev" =>
                \A j \in DOMAIN log :
                    log[j].pf = p =>
                        /\ log[j].op = "get"
                        /\ log[j].res = "switchdev"
                        /\ j < Len(log) => log[j + 1].driver = log[j].driver

\* a second call right after a first one that switched the PF and returned
C4_Witness ==
    /\ run = 2 /\ pc = "done" /\ error = "none"
    /\ prev.returned
    /\ \E j \in DOMAIN log :
          /\ log[j].op = "get"
          /\ log[j].res = "switchdev"
          /\ log[j].pf \in prev.switched

\* C5: a VF that has no driver when its PF's iteration begins gets no
\* unbind write, is never on rebond, gets no bind write, and has no driver
\* at any later point of the iteration nor after it.
C5_UnboundStaysUnbound ==
    HasIter =>
        \A v \in UnboundAtStart :
            /\ \A j \in DOMAIN IterLog :
                  /\ IterLog[j].dev # v
                  /\ IterLog[j].driver[v] = "none"
            /\ driver[v] = "none"
            /\ InTry => \A r \in DOMAIN rebond : rebond[r] # v

C5_Witness ==
    /\ HasIter /\ IterDone
    /\ UnboundAtStart # {}
    /\ Len(BindsIssued) = 1
    /\ \A v \in UnboundAtStart : driver[v] = "none"

\* C6 (as stated): in a finished iteration of a legacy PF the mode-set
\* call has been issued exactly once.
C6_AsStated ==
    (HasIter /\ IterDone) => Len(SetsIssued) = 1

\* C6 (amended): in the iteration of a legacy PF the unbind writes go to
\* the VFs that were bound, in VF index order; the control file is closed
\* again before any other operation; every unbind write precedes the
\* mode-set call; and the mode-set call is issued at most once, exactly
\* once when no unbind write fails (a failed unbind write skips it).
C6_UnbindThenSet ==
    /\ (pc \notin {"unbind_write", "bind_write"}) => handle = "none"
    /\ HasIter =>
        /\ IsPrefix(UnbindsIssued, BoundAtStart)
        /\ \A u \in At("unbind") : \A m \in At("set") : u < m
        /\ Len(SetsIssued) <= 1
        /\ SetsIssued # << >> =>
              (UnbindsIssued = BoundAtStart /\ ~UnbindFailed)
        /\ IterDone => (Len(SetsIssued) = 1 <=> ~UnbindFailed)

C6_Witness ==
    /\ HasIter /\ IterDone
    /\ Len(vf_addrs(Pf)) = 2
    /\ UnbindsIssued = vf_addrs(Pf)
    /\ Len(SetsIssued) = 1

\* C7: an unbind write, a bind write or a mode-set call is issued only in
\* the iteration of a PF that is driven by mlx5_core, has at least one VF
\* and was reported in legacy mode; and a device that is not a PF, is bound
\* to another driver, or has no VFs is passed over: no mode-set call is
\* issued for it and no exception is raised at it.
C7_EligibilityGuard ==
    \A j \in DOMAIN log :
        log[j].pf \in Addrs =>
            LET p == log[j].pf
            IN  /\ log[j].op \in {"unbind", "bind", "set"} =>
                    /\ is_pf(p)
                    /\ log[j].driver[p] = "mlx5_core"
                    /\ vf_addrs(p) # << >>
                    /\ \E g \in 1 .. (j - 1) : IsIter(g) /\ log[g].pf = p
                /\ (\/ ~is_pf(p)
                    \/ log[j].driver[p] \notin {"none", "mlx5_core"}
                    \/ vf_addrs(p) = << >>)
                      => log[j].op \notin {"set", "raise"}

\* C8: when the eswitch query of a PF fails, switch() raises nothing at
\* that PF and goes on: it ends without error unless a later device fails.
C8_QueryFailureSkipped ==
    \A j \in DOMAIN log :
        (log[j].op = "get" /\ log[j].res = "fail") =>
            /\ \A r \in DOMAIN log :
                  log[r].op = "raise" => log[r].pf # log[j].pf
            /\ pc = "done" =>
                  (error = "none" \/ Last(log).pf # log[j].pf)

\* C9: when the eswitch query of a device fails, switch() ends with the
\* error SRIOVModeNotEnabled, which no other failure produces, and no
\* unbind write or mode-set call was issued for that device.
C9_DistinguishedError ==
    \A j \in DOMAIN log :
        (log[j].op = "get" /\ log[j].res = "fail") =>
            /\ pc = "done"
            /\ error = "SRIOVModeNotEnabled"
            /\ \A k \in DOMAIN log :
                  log[k].pf = log[j].pf => log[k].op \notin {"unbind", "set"}

\* C10: no exception is raised at a device that has no driver link: the
\* driver lookup answers "absent" and the device is passed over.
C10_UnboundDeviceSkipped ==
    \A j \in DOMAIN log :
        (log[j].pf \in Addrs /\ log[j].driver[log[j].pf] = "none")
            => log[j].op # "raise"

\* The eligibility guard restricted to devices that have a driver link
\* (the driver lookup of a PF without one raises, see DriverLookupFails).
C7_GuardForBoundDevices ==
    \A j \in DOMAIN log :
        (log[j].pf \in Addrs /\ log[j].driver[log[j].pf] # "none") =>
            LET p == log[j].pf
            IN  /\ log[j].op \in {"unbind", "bind", "set"} =>
                    /\ is_pf(p)
                    /\ log[j].driver[p] = "mlx5_core"
                    /\ vf_addrs(p) # << >>
                    /\ \E g \in 1 .. (j - 1) : IsIter(g) /\ log[g].pf = p
                /\ (\/ ~is_pf(p)
                    \/ log[j].driver[p] # "mlx5_core"
                    \/ vf_addrs(p) = << >>)
                      => log[j].op \notin {"set", "raise"}

\* the first index n whose virtfn<n> link is missing
FirstMissing(d) ==
    CHOOSE n \in 0 .. MaxProbe :
        n \notin virtfn[d] /\ \A k \in 0 .. (n - 1) : k \in virtfn[d]

\* C11: vf_addrs returns the targets of virtfn0 .. virtfn(n-1) in index
\* order, where n is the first missing index, whatever links exist beyond
\* n; it is empty for a device without virtfn0.
C11_VfAddrsStopAtFirstGap ==
    /\ pc = "probe" =>
        /\ vf_acc = [k \in 1 .. vf_i |-> VfAddr(target, k - 1)]
        /\ vf_i <= FirstMissing(target)
    /\ pc = "probed" =>
        /\ Len(vf_acc) = FirstMissing(target)
        /\ vf_acc = [k \in 1 .. FirstMissing(target) |-> VfAddr(target, k - 1)]
        /\ vf_addrs(target) = vf_acc
        /\ vfs(target) = vf_acc
        /\ 0 \notin virtfn[target] => vf_acc = << >>

C11_Witness ==
    /\ pc = "probed"
    /\ Len(vf_acc) = 2
    /\ 2 \notin virtfn[target]
    /\ 3 \in virtfn[target]
    /\ vf_addrs(target) = << VfAddr(target, 0), VfAddr(target, 1) >>

\* the j-th smallest element of a set of PCI addresses
Nth(K, j) == CHOOSE k \in K : Cardinality({x \in K : x < k}) = j - 1

\* the record the table owes to the pair of PCI address d
ExpectedRecord(d) ==
    [pci |-> d,
     netdev |-> pci_to_netdev[d],
     driver |-> driver[d],
     role |-> IF d \in sriov THEN "PF"
              ELSE IF physfn(d) # 0 THEN "VF of" ELSE "",
     of |-> IF d \notin sriov /\ physfn(d) # 0
            THEN pci_to_netdev[physfn(d)] ELSE 0]

\* one record per pair of the mapping, in ascending order of PCI address
ExpectedOut ==
    [j \in 1 .. Cardinality(Keys(pci_to_netdev)) |->
        ExpectedRecord(Nth(Keys(pci_to_netdev), j))]

\* the mapping holds, for each PCI address with a netdev, the netdev listed last
MappingBuilt ==
    \A d \in Addrs :
        LET at == {i \in DOMAIN netlist : netdevice[netlist[i]] = d}
        IN  pci_to_netdev[d] =
                IF at = {} THEN 0
                ELSE netlist[CHOOSE i \in at : \A k \in at : k <= i]

\* C12 as stated: whenever show has ended, it has printed exactly one record
\* per pair of the mapping, ascending, with the role suffix of each netdev.
C12_AsStated ==
    pc \in {"shown", "done"} => out = ExpectedOut

C12_Records ==
    /\ pc \in {"print", "shown", "done"} =>
        /\ MappingBuilt
        /\ IsPrefix(out, ExpectedOut)
        /\ Len(out) = IF pc = "shown" THEN Len(ExpectedOut) ELSE idx - 1
    /\ pc = "shown" => out = ExpectedOut /\ error = "none"
    /\ pc = "done" =>
        /\ idx <= Len(ExpectedOut)
        /\ LET d == Nth(Keys(pci_to_netdev), idx)
           IN  \/ /\ error = "KeyError"
                  /\ d \notin sriov
                  /\ physfn(d) # 0
                  /\ pci_to_netdev[physfn(d)] = 0
               \/ /\ error = "FileNotFoundError"
                  /\ driver[d] = "none"
    /\ log = << >>
    /\ handle = "none"

\* C12 (amended): a show that returns has printed exactly one record per
\* pair of the mapping, in ascending PCI-address order, with suffix PF,
\* "VF of <netdev of its PF>" or empty; a show that fails has printed the
\* records of the pairs before the failing one, which is a VF netdev whose PF
\* has no netdev in the mapping (KeyError) or a netdev whose device has no
\* driver link; no step of show writes to bind or unbind, sets a devlink
\* mode, or changes a driver binding or an eswitch mode.
C12_ShowTable ==
    /\ [] C12_Records
    /\ [][driver' = driver /\ mode' = mode /\ log' = log]_vars

C12_Witness ==
    /\ pc = "shown"
    /\ Len(out) = 3
    /\ \E i, j, k \in DOMAIN out :
        /\ out[i].role = "PF"
        /\ out[j].role = "VF of"
        /\ out[j].of = out[i].netdev
        /\ out[k].role = ""
        /\ out[i].pci < out[j].pci

\* C13 (as stated): when the rebind pass after a failed mode-set call has
\* ended, a bind write was attempted for every VF unbound in the iteration
\* and the failure reported is the mode-set failure.
C13_AsStated ==
    (HasIter /\ SetFailed /\ IterDone) =>
        /\ Range(BindsIssued) = Range(Unbound)
        /\ error = "CalledProcessError"

\* C13 (amended): during the rebind pass that follows a failed mode-set
\* call, bind writes are attempted in list order for the VFs unbound in the
\* iteration; the first bind write that fails ends the pass, the VFs after
\* it get no bind write and stay unbound, and its OSError is the failure
\* reported; when no bind write fails every unbound VF is bound again and
\* the failure reported is the mode-set failure.
C13_BindFailureEndsPass ==
    (HasIter /\ SetFailed) =>
        /\ IsPrefix(BindsIssued, Unbound)
        /\ BindFailed =>
            /\ IterDone
            /\ Devs(IterLog, "bind", {"fail"}) = << Last(BindsIssued) >>
            /\ Last(IterLog).op = "raise" /\ Last(IterLog).res = "OSError"
            /\ pc = "done" /\ error = "OSError"
            /\ \A k \in Len(BindsIssued) .. Len(Unbound) :
                    driver[Unbound[k]] = "none"
        /\ (IterDone /\ ~BindFailed) =>
            /\ BindsIssued = Unbound
            /\ Last(IterLog).res = "CalledProcessError"
            /\ pc = "done" /\ error = "CalledProcessError"
            /\ \A v \in Range(Unbound) : driver[v] = "mlx5_core"

C13_Witness ==
    /\ HasIter /\ SetFailed /\ BindFailed
    /\ Len(Unbound) = 2
    /\ BindsIssued = << Unbound[1] >>
    /\ driver[Unbound[2]] = "none"
    /\ pc = "done" /\ error = "OSError"

\* the exception that ended the iteration is the one that was in flight
\* when the finally block began, not one raised by a bind write
ReraisedPending ==
    /\ IterDone
    /\ Last(IterLog).op = "raise"
    /\ ~BindFailed

\* C14 (as stated): when an unbind write fails after k VFs were unbound,
\* no mode-set call is issued, each of the k VFs and no other gets a bind
\* write, and the failure that reaches the caller is the unbind failure.
C14_AsStated ==
    (HasIter /\ UnbindFailed /\ IterDone) =>
        /\ SetsIssued = << >>
        /\ BindsIssued = Unbound
        /\ ReraisedPending

\* C14 (amended): when an unbind write fails after k VFs were unbound, the
\* failing VF keeps its driver, no further unbind write and no mode-set
\* call is issued for that PF, and bind writes are issued in list order
\* for the k VFs and for no other device; all k are issued and the unbind
\* failure reaches the caller unless a bind write fails, which ends the
\* pass at that VF and reaches the caller instead.
C14_UnbindFailureUnwinds ==
    (HasIter /\ UnbindFailed) =>
        /\ SetsIssued = << >>
        /\ UnbindsIssued = Append(Unbound, Last(UnbindsIssued))
        /\ IsPrefix(UnbindsIssued, BoundAtStart)
        /\ driver[Last(UnbindsIssued)] = "mlx5_core"
        /\ IsPrefix(BindsIssued, Unbound)
        /\ \A b \in At("bind") : \A u \in At("unbind") : u < b
        /\ ~IterDone => (InTry /\ pending = "OSError" /\ error = "none")
        /\ IterDone =>
            /\ Last(IterLog).op = "raise" /\ Last(IterLog).res = "OSError"
            /\ pc = "done" /\ error = "OSError"
            /\ BindsIssued = Unbound \/ BindFailed
            /\ ReraisedPending =>
                \A v \in Range(Unbound) : driver[v] = "mlx5_core"

C14_Witness ==
    /\ HasIter /\ UnbindFailed /\ ReraisedPending
    /\ Len(Unbound) = 1
    /\ Len(UnbindsIssued) = 2
    /\ BindsIssued = Unbound
    /\ pc = "done" /\ error = "OSError"

\* the devices that come after the current one in the enumeration
Later == {listing[i] : i \in (idx + 1) .. Len(listing)}

\* switch() has ended with an exception
Failed == pc = "done" /\ error # "none"

\* C15: switch() stops at the first propagated failure: a failed query,
\* unbind write or mode-set call is followed only by the bind writes of the
\* same PF's rebind pass and by the exception, a failed bind write by the
\* exception alone; the exception ends the call, and no device later in
\* the enumeration has had its turn in the loop, so that the later PFs
\* still have the eswitch mode and the VF bindings they had when the call
\* began.
C15_StopsAtFirstFailure ==
    /\ \A k \in DOMAIN log :
        /\ log[k].op = "raise" =>
            /\ k = Len(log)
            /\ Failed
            /\ error = log[k].res
            /\ log[k].pf = cur
        /\ log[k].res = "fail" =>
            \A j \in (k + 1) .. Len(log) :
                /\ log[j].pf = log[k].pf
                /\ log[j].op \in {"bind", "raise"}
                /\ log[k].op = "bind" => log[j].op = "raise"
    /\ Failed =>
        /\ Last(log).op = "raise"
        /\ \A e \in DOMAIN log : log[e].pf \notin Later
        /\ \A d \in Later :
            is_pf(d) =>
                /\ mode[d] = log[1].mode[d]
                /\ driver[d] = log[1].driver[d]
                /\ \A v \in Range(vf_addrs(d)) : driver[v] = log[1].driver[v]

C15_Witness ==
    /\ Failed
    /\ \E k \in DOMAIN log : log[k].op = "set" /\ log[k].res = "fail"
    /\ \E d \in Later :
        /\ is_mlx5_pf(d)
        /\ mode[d] = "legacy"
        /\ \E v \in Range(vf_addrs(d)) : driver[v] = "mlx5_core"
        /\ \A e \in DOMAIN log : log[e].pf # d

====
